---- MODULE Spec2Model ----
(***************************************************************************)
(* Model of bc4.py: the OAuth token lifecycle (BasecampAuth), the          *)
(* paginated API client (BasecampAPI) and the commands' use of the token   *)
(* store (BasecampCLI).                                                    *)
(*                                                                         *)
(* Python dicts are functions whose DOMAIN is the set of keys present, so  *)
(* that "'k' in d" is  "k" \in DOMAIN d  and d.get(k, default) is Get.     *)
(* The token endpoint, the resource API and the local clock are the        *)
(* environment: their answers are drawn from small sets.                   *)
(***************************************************************************)
EXTENDS Integers, Sequences, FiniteSets, TLC

VARIABLES
    clock,           \* int(time.time()): the local clock
    token_file,      \* content of TOKEN_FILE: NoFile or the JSON dict in it
    pc,              \* position of the running operation
    op,              \* the operation called from idle
    caller,          \* who called refresh_token: "get_valid_token" or "direct"
    token_data,      \* refresh_token's argument (the loaded credential)
    file0,           \* token_file when the operation was called
    current_time,    \* get_valid_token's reading of the clock (line 337)
    token_request,   \* the form last POSTed to the token endpoint
    token_requests,  \* POSTs to the token endpoint by the running operation
    store_writes,    \* save_token calls by the running operation
    token_response,  \* the token endpoint's answer to the running operation
    response_time,   \* the clock when that answer was received
    result,          \* what the operation returned or raised
    prompt_input,    \* what input() returned at login's prompt
    file_mode,       \* permission bits of TOKEN_FILE
    file_reads,      \* load_token calls by the running operation or command
    cmd,             \* the command main dispatched, "none" outside a command
    api_token,       \* BasecampAPI.token_data
    api_pc,          \* position of the running BasecampAPI operation
    api_op,          \* the BasecampAPI operation called
    get_all,         \* get_projects' argument
    page,            \* get_projects' page counter
    all_projects,    \* get_projects' accumulator
    api_log,         \* requests sent, responses received and sleeps, in order
    api_result,      \* what the BasecampAPI operation returned or raised
    lookups,         \* tool lookups this BasecampAPI object has completed
    project_gets     \* project GETs those lookups have sent

authVars == <<clock, token_file, pc, op, caller, token_data, file0, current_time,
              token_request, token_requests, store_writes, token_response,
              response_time, result, prompt_input,
              file_mode, file_reads, cmd>>

apiVars == <<api_token, api_pc, api_op, get_all, page, all_projects, api_log,
             api_result, lookups, project_gets>>

vars == <<authVars, apiVars>>

----------------------------------------------------------------------------
(* Bounds of the model *)

MaxClock == 900
MaxPages == 3
MaxLookups == 2

StartClocks == {300}
TickSteps == {150, 300}

(* Values the environment draws from *)
ExpiresIns == {100, 599, 600, 7200}
ServerObtainedAts == {99999}
Statuses == {200, 304, 404, 500}

----------------------------------------------------------------------------
(* Python values *)

None == [none |-> TRUE]
NoFile == [nofile |-> TRUE]
\* TOKEN_FILE exists but open() fails; it opens but holds no JSON text
Unreadable == [unreadable |-> TRUE]
NotJson == [not_json |-> TRUE]
Nothing == [nothing |-> TRUE]
EmptyDict == <<>>

Opt(k, v, present) == IF present THEN k :> v ELSE EmptyDict

\* d[k] = v
SetKey(d, k, v) == [j \in DOMAIN d \cup {k} |-> IF j = k THEN v ELSE d[j]]

\* d.get(k, default)
Get(d, k, default) == IF k \in DOMAIN d THEN d[k] ELSE default

\* "not x" for x None, a dict or a list
Falsy(x) == x = None \/ x = EmptyDict \/ x = [list |-> <<>>]

\* x has the methods of a dict (a decoded JSON list has not)
IsDict(x) == "list" \notin DOMAIN x

Return(v) == [kind |-> "return", value |-> v]
Raise(e) == [kind |-> "raise", exc |-> e]

ValueError(msg) == [type |-> "ValueError", msg |-> msg]
HTTPError(status) == [type |-> "HTTPError", status |-> status]
ConnectionError == [type |-> "ConnectionError"]
JSONDecodeError == [type |-> "JSONDecodeError"]
AttributeError == [type |-> "AttributeError"]
NoException == [type |-> "none"]

----------------------------------------------------------------------------
(* The token endpoint *)

NetworkError == [network_error |-> TRUE]
BadBody == [bad |-> TRUE]

\* JSON objects the token endpoint may answer with
TokenBodies ==
    { ("access_token" :> "a1")
        @@ Opt("refresh_token", "r1", hasR)
        @@ Opt("expires_in", e, hasE)
        @@ Opt("obtained_at", o, hasO) :
        hasR \in BOOLEAN, e \in ExpiresIns, hasE \in BOOLEAN,
        o \in ServerObtainedAts, hasO \in BOOLEAN }

TokenResponses ==
    {NetworkError} \cup [status_code : Statuses, body : TokenBodies \cup {BadBody}]

\* credentials an earlier run may have left in TOKEN_FILE at time now
StoredCredentials(now) ==
    { ("access_token" :> "a0")
        @@ Opt("refresh_token", "r0", hasR)
        @@ Opt("expires_in", e, hasE)
        @@ ("obtained_at" :> o) :
        hasR \in BOOLEAN, e \in ExpiresIns, hasE \in BOOLEAN,
        o \in {t \in {0} \cup StartClocks : t <= now} }

\* faulty variant of raise_for_status: client errors pass
raise_for_status_ServerOnly(response) ==
    response.status_code >= 500 /\ response.status_code < 600

\* response.raise_for_status(): raises for 4xx and 5xx
raise_for_status(response) ==
    response.status_code >= 400 /\ response.status_code < 600

\* requests.get or post; raise_for_status(); response.json(): the exception
\* they raise, or NoException
HttpException(response) ==
    IF response = NetworkError THEN ConnectionError
    ELSE IF raise_for_status(response) THEN HTTPError(response.status_code)
    ELSE IF response.body = BadBody THEN JSONDecodeError
    ELSE NoException

----------------------------------------------------------------------------
(* Python strings are sequences of one-character strings *)

\* p occurs in s at index i
OccursAt(s, p, i) ==
    /\ i >= 1
    /\ i + Len(p) - 1 <= Len(s)
    /\ SubSeq(s, i, i + Len(p) - 1) = p

\* index of the first occurrence of p in s, 0 when there is none
Find(s, p) ==
    IF \E i \in 1..Len(s) : OccursAt(s, p, i)
    THEN CHOOSE i \in 1..Len(s) :
            /\ OccursAt(s, p, i)
            /\ \A j \in 1..(i - 1) : ~OccursAt(s, p, j)
    ELSE 0

\* p in s
Contains(s, p) == Find(s, p) # 0

\* s.split(p)[0]
SplitFirst(s, p) ==
    IF Contains(s, p) THEN SubSeq(s, 1, Find(s, p) - 1) ELSE s

\* s.split(p)[1], for p in s
SplitSecond(s, p) ==
    SplitFirst(SubSeq(s, Find(s, p) + Len(p), Len(s)), p)

IsSpace(c) == c = " "

\* s.strip()
RECURSIVE Strip(_)
Strip(s) ==
    IF s = <<>> THEN s
    ELSE IF IsSpace(Head(s)) THEN Strip(Tail(s))
    ELSE IF IsSpace(s[Len(s)]) THEN Strip(SubSeq(s, 1, Len(s) - 1))
    ELSE s

QCode == <<"?", "c", "o", "d", "e", "=">>
Amp == <<"&">>

\* what the user may paste at login's prompt
CodeInputs ==
    { <<>>,
      <<"A", "B", "C", "1", "2", "3">>,
      <<" ", "X", "Y", " ">>,
      <<"h", "t", "t", "p", ":", "/", "/", "l", "o", "c", "a", "l", "h", "o", "s", "t", "?", "c", "o", "d", "e", "=", "A", "B", "C", "1", "2", "3", "&", "s", "t", "a", "t", "e", "=", "x", "y", "z">>,
      <<"h", "t", "t", "p", ":", "/", "/", "l", "o", "c", "a", "l", "h", "o", "s", "t", "?", "s", "t", "a", "t", "e", "=", "x", "y", "z", "&", "c", "o", "d", "e", "=", "A", "B", "C", "1", "2", "3">>,
      <<"h", "t", "t", "p", ":", "/", "/", "l", "o", "c", "a", "l", "h", "o", "s", "t", "?", "c", "o", "d", "e", "=", "&", "s", "t", "a", "t", "e", "=", "x", "y", "z">> }

\* login's extraction of the authorization code from the pasted text
AuthCode(pasted) ==
    LET code_input == Strip(pasted)
    IN  IF Contains(code_input, QCode)
        THEN SplitFirst(SplitSecond(code_input, QCode), Amp)
        ELSE code_input

----------------------------------------------------------------------------
(* BasecampAuth *)

\* load_token: None for no file and for any exception of open or json.load,
\* otherwise whatever JSON value the file holds
load_token(file) ==
    IF file \in {NoFile, Unreadable, NotJson} THEN None ELSE file

\* faulty variants of IsExpired: stale already at the margin; no margin at all
IsExpired_AtMargin(now, obtained_at, expires_in) ==
    (now - obtained_at) >= (expires_in - 300)

IsExpired_NoMargin(now, obtained_at, expires_in) ==
    (now - obtained_at) > expires_in

\* the staleness test of get_valid_token
IsExpired(now, obtained_at, expires_in) ==
    (now - obtained_at) > (expires_in - 300)

\* faulty variant of RefreshedToken: the prior refresh token is not carried forward
RefreshedToken_NoCarry(old, body, now) == SetKey(body, "obtained_at", now)

\* the credential refresh_token builds from a decoded response
RefreshedToken(old, body, now) ==
    LET new_token_data == SetKey(body, "obtained_at", now)
    IN  IF "refresh_token" \notin DOMAIN new_token_data /\ "refresh_token" \in DOMAIN old
        THEN SetKey(new_token_data, "refresh_token", old["refresh_token"])
        ELSE new_token_data

\* faulty variant of LoginToken: a server-sent obtained_at is kept
LoginToken_TrustServer(body, now) ==
    IF "obtained_at" \in DOMAIN body THEN body ELSE SetKey(body, "obtained_at", now)

\* the credential login builds from a decoded response
LoginToken(body, now) == SetKey(body, "obtained_at", now)

\* faulty variant of RefreshFailure: the stale credential is returned
RefreshFailure_ReturnStale(who, old, e) ==
    IF who = "get_valid_token" THEN Return(old) ELSE Raise(e)

\* how a refresh_token that raised e ends: get_valid_token's except clause
\* turns it into None, another caller sees the exception
RefreshFailure(who, old, e) ==
    IF who = "get_valid_token" THEN Return(None) ELSE Raise(e)

RefreshForm(old) ==
    [type |-> "refresh", refresh_token |-> old["refresh_token"],
     grant_type |-> "refresh_token"]

\* the operation ends with result r and leaves the token file alone
Finish(r) ==
    /\ pc' = "done"
    /\ result' = r
    /\ UNCHANGED <<clock, token_file, token_request, token_requests, store_writes,
                   token_response, response_time>>

\* refresh_token(old) up to its POST; inside get_valid_token's try when
\* who = "get_valid_token"
RefreshCall(old, who) ==
    /\ caller' = who
    /\ token_data' = old
    /\ IF "refresh_token" \notin DOMAIN old
       THEN Finish(RefreshFailure(who, old, ValueError("No refresh token available")))
       ELSE /\ pc' = "refresh_wait"
            /\ token_request' = RefreshForm(old)
            /\ token_requests' = token_requests + 1
            /\ UNCHANGED <<clock, token_file, store_writes, token_response,
                           response_time, result>>

GetValidTokenCall ==
    /\ op' = "get_valid_token"
    /\ file_reads' = file_reads + 1
    /\ file0' = token_file
    /\ current_time' = clock
    /\ LET loaded == load_token(token_file)
       IN  IF Falsy(loaded)
           THEN /\ Finish(Return(None))
                /\ UNCHANGED <<caller, token_data>>
           ELSE IF ~IsDict(loaded)
           THEN /\ Finish(Raise(AttributeError))
                /\ UNCHANGED <<caller, token_data>>
           ELSE IF IsExpired(clock, Get(loaded, "obtained_at", 0),
                             Get(loaded, "expires_in", 7200))
           THEN RefreshCall(loaded, "get_valid_token")
           ELSE /\ Finish(Return(loaded))
                /\ UNCHANGED <<caller, token_data>>
    /\ UNCHANGED <<prompt_input, file_mode>>
    /\ UNCHANGED apiVars

\* BasecampAuth.get_valid_token called by itself
get_valid_token ==
    /\ pc = "idle"
    /\ GetValidTokenCall
    /\ UNCHANGED cmd

\* refresh_token called on the stored credential by another caller
refresh_token ==
    /\ pc = "idle"
    /\ token_file # NoFile
    /\ op' = "refresh_token"
    /\ file0' = token_file
    /\ UNCHANGED current_time
    /\ RefreshCall(token_file, "direct")
    /\ UNCHANGED <<prompt_input, file_mode, file_reads, cmd>>
    /\ UNCHANGED apiVars

\* permission bits: 0o600, 0o666
OwnerOnly == {"ur", "uw"}
CreateMode == {"ur", "uw", "gr", "gw", "or", "ow"}

\* the bits the process's umask clears at creation: 0o022, 0o077
Umasks == {{"gw", "ow"}, {"gr", "gw", "or", "ow"}}

\* save_token up to the end of the with block: open(TOKEN_FILE, 'w') creates
\* the file with 0o666 less the umask, or truncates it and keeps its mode;
\* json.dump writes the content
save_token(new_token_data) ==
    /\ token_file' = new_token_data
    /\ store_writes' = store_writes + 1
    /\ \E umask \in Umasks :
        file_mode' = IF token_file = NoFile THEN CreateMode \ umask
                     ELSE file_mode

\* save_token's os.chmod(TOKEN_FILE, 0o600); login or refresh_token returns
\* the credential it saved
chmod ==
    /\ pc = "chmod"
    /\ file_mode' = OwnerOnly
    /\ pc' = "done"
    /\ result' = Return(token_file)
    /\ UNCHANGED <<clock, token_file, op, caller, token_data, file0,
                   current_time, token_request, token_requests, store_writes,
                   token_response, response_time, prompt_input, file_reads,
                   cmd>>
    /\ UNCHANGED apiVars

\* the token endpoint answers refresh_token's POST
RefreshResponse ==
    /\ pc = "refresh_wait"
    /\ \E response \in TokenResponses :
        /\ token_response' = response
        /\ response_time' = clock
        /\ LET e == HttpException(response)
           IN  IF e # NoException
               THEN /\ pc' = "done"
                    /\ result' = RefreshFailure(caller, token_data, e)
                    /\ UNCHANGED <<token_file, store_writes, file_mode>>
               ELSE /\ pc' = "chmod"
                    /\ save_token(RefreshedToken(token_data, response.body, clock))
                    /\ UNCHANGED result
    /\ UNCHANGED <<clock, op, caller, token_data, file0, current_time,
                   token_request, token_requests>>
    /\ UNCHANGED <<prompt_input, file_reads, cmd>>
    /\ UNCHANGED apiVars

\* faulty variant of NoCode: an empty code goes through
NoCode_Never(auth_code) == FALSE

\* "not auth_code"
NoCode(auth_code) == auth_code = <<>>

LoginForm(auth_code) ==
    [type |-> "web_server", code |-> auth_code, grant_type |-> "authorization_code"]

\* login up to its POST: the user pastes a code or the redirect URL
LoginCall ==
    /\ op' = "login"
    /\ file0' = token_file
    /\ UNCHANGED <<caller, token_data, current_time>>
    /\ \E pasted \in CodeInputs :
        LET auth_code == AuthCode(pasted)
        IN  /\ prompt_input' = pasted
            /\ IF NoCode(auth_code)
               THEN /\ pc' = "done"
                    /\ result' = Raise(ValueError("No authorization code entered"))
                    /\ UNCHANGED <<token_request, token_requests>>
               ELSE /\ pc' = "login_wait"
                    /\ token_request' = LoginForm(auth_code)
                    /\ token_requests' = token_requests + 1
                    /\ UNCHANGED result
    /\ token_response' = Nothing
    /\ response_time' = 0
    /\ UNCHANGED <<clock, token_file, store_writes>>
    /\ UNCHANGED <<file_mode, file_reads>>
    /\ UNCHANGED apiVars

\* BasecampAuth.login called by itself
login ==
    /\ pc = "idle"
    /\ LoginCall
    /\ UNCHANGED cmd

\* the token endpoint answers login's POST
LoginResponse ==
    /\ pc = "login_wait"
    /\ \E response \in TokenResponses :
        /\ token_response' = response
        /\ response_time' = clock
        /\ LET e == HttpException(response)
           IN  IF e # NoException
               THEN /\ pc' = "done"
                    /\ result' = Raise(e)
                    /\ UNCHANGED <<token_file, store_writes, file_mode>>
               ELSE /\ pc' = "chmod"
                    /\ save_token(LoginToken(response.body, clock))
                    /\ UNCHANGED result
    /\ UNCHANGED <<clock, op, caller, token_data, file0, current_time,
                   token_request, token_requests>>
    /\ UNCHANGED <<prompt_input, file_reads, cmd>>
    /\ UNCHANGED apiVars

\* time passes while the program waits or between operations
Tick ==
    /\ pc \in {"idle", "refresh_wait", "login_wait"}
    /\ \E d \in TickSteps :
        /\ clock + d <= MaxClock
        /\ clock' = clock + d
    /\ UNCHANGED <<token_file, pc, op, caller, token_data, file0, current_time,
                   token_request, token_requests, store_writes, token_response,
                   response_time, result>>
    /\ UNCHANGED <<prompt_input, file_mode, file_reads, cmd>>
    /\ UNCHANGED apiVars

\* the caller takes the result; the next operation starts from idle
Done ==
    /\ pc = "done"
    /\ pc' = "idle"
    /\ op' = "none"
    /\ caller' = "none"
    /\ token_data' = Nothing
    /\ file0' = Nothing
    /\ current_time' = 0
    /\ token_request' = Nothing
    /\ token_requests' = 0
    /\ store_writes' = 0
    /\ token_response' = Nothing
    /\ response_time' = 0
    /\ result' = Nothing
    /\ prompt_input' = <<>>
    /\ file_reads' = 0
    /\ UNCHANGED <<clock, token_file, file_mode, cmd>>
    /\ UNCHANGED apiVars

\* no operation is running
AuthIdle ==
    /\ pc = "idle"
    /\ op = "none"
    /\ caller = "none"
    /\ token_data = Nothing
    /\ file0 = Nothing
    /\ current_time = 0
    /\ token_request = Nothing
    /\ token_requests = 0
    /\ store_writes = 0
    /\ token_response = Nothing
    /\ response_time = 0
    /\ result = Nothing
    /\ prompt_input = <<>>
    /\ file_mode = IF token_file = NoFile THEN {} ELSE OwnerOnly
    /\ file_reads = 0
    /\ cmd = "none"

AuthNext ==
    \/ get_valid_token
    \/ refresh_token
    \/ RefreshResponse
    \/ login
    \/ LoginResponse
    \/ chmod
    \/ Tick
    \/ Done

----------------------------------------------------------------------------
(* The resource API *)

\* Link headers, as the set of relations they name
Links == {{}, {"next"}, {"prev"}, {"prev", "next"}}

\* a decoded JSON list
JsonList(items) == [list |-> items]

\* decoded collection pages: lists of records, here their ids
Pages == {JsonList(<<>>), JsonList(<<1, 2>>), JsonList(<<3>>)}

TodoSet == [name |-> "todoset", id |-> 11]
Chat == [name |-> "chat", id |-> 12]
MessageBoard == [name |-> "message_board", id |-> 13]

\* decoded project resources
Projects ==
    { [name |-> "p"],
      [name |-> "p", dock |-> <<>>],
      [name |-> "p", dock |-> <<TodoSet, MessageBoard, Chat>>],
      [name |-> "p", dock |-> <<TodoSet>>],
      [name |-> "p", dock |-> <<[name |-> "chat"], Chat>>],
      [name |-> "p", dock |-> <<[name |-> "message_board"], MessageBoard>>],
      [name |-> "p", dock |-> <<[id |-> 14], TodoSet>>] }

\* other decoded resources
Resources == {[id |-> 21]}

ApiResponses(bodies) ==
    {NetworkError}
        \cup [status_code : Statuses, body : bodies \cup {BadBody}, link : Links]

GetOps == {"get_identity", "get_project", "get_todolists", "get_todos"}
PostOps == {"create_todolist", "create_todo"}
LookupOps == {"get_todoset", "get_campfire"}
PostAfterLookupOps == {"post_message", "post_to_campfire"}

\* the dock entry name each operation looks for
DockName(o) ==
    CASE o = "get_todoset" -> "todoset"
      [] o = "post_message" -> "message_board"
      [] OTHER -> "chat"

Request(method, resource, n) ==
    [ev |-> "request", method |-> method, resource |-> resource, page |-> n,
     authorization |-> api_token["access_token"]]
Response(response) == [ev |-> "response", response |-> response]
\* time.sleep(0.2), in milliseconds
PauseMs == 200
Sleep == [ev |-> "sleep", ms |-> PauseMs]

\* faulty variant of Pause: the loop goes on without sleeping
Pause_None == <<>>

\* what the end of a continuing loop body adds to the log
Pause == <<Sleep>>

----------------------------------------------------------------------------
(* BasecampAPI *)

\* faulty variant of HeadersException: no check, the subscript fails
HeadersException_NoCheck(token) ==
    IF Falsy(token) THEN [type |-> "TypeError"] ELSE NoException

\* the headers property: what it raises for self.token_data = token
HeadersException(token) ==
    IF Falsy(token)
    THEN ValueError("No authentication token available")
    ELSE NoException

\* the operation ends with result r
ApiFinish(r) ==
    /\ api_pc' = "done"
    /\ api_result' = r

\* faulty variant of Send: the call goes on without sending its request
Send_Skipped(method, resource, n, wait) ==
    LET e == HeadersException(api_token)
    IN  IF e # NoException
        THEN /\ ApiFinish(Raise(e))
             /\ UNCHANGED api_log
        ELSE /\ api_pc' = wait
             /\ UNCHANGED <<api_log, api_result>>

\* requests.get or requests.post with headers=self.headers: the headers are
\* built first, then the request goes out and the operation waits at wait
Send(method, resource, n, wait) ==
    LET e == HeadersException(api_token)
    IN  IF e # NoException
        THEN /\ ApiFinish(Raise(e))
             /\ UNCHANGED api_log
        ELSE /\ api_pc' = wait
             /\ api_log' = Append(api_log, Request(method, resource, n))
             /\ UNCHANGED api_result

\* the token_data a BasecampAPI may be built with
ApiTokens ==
    {None, EmptyDict,
     [access_token |-> "a1", refresh_token |-> "r1", expires_in |-> 7200,
      obtained_at |-> clock]}

\* BasecampAPI(token_data)
BasecampAPI ==
    /\ api_pc = "new"
    /\ \E token \in ApiTokens :
        api_token' = token
    /\ api_pc' = "idle"
    /\ UNCHANGED <<api_op, get_all, page, all_projects, api_log, api_result,
                   lookups, project_gets>>
    /\ UNCHANGED authVars

\* get_projects up to its first request
get_projects ==
    /\ api_pc = "idle"
    /\ api_op' = "get_projects"
    /\ get_all' \in BOOLEAN
    /\ all_projects' = <<>>
    /\ page' = 1
    /\ Send("GET", "projects", 1, "wait_page")
    /\ UNCHANGED api_token
    /\ UNCHANGED <<lookups, project_gets>>
    /\ UNCHANGED authVars

\* faulty variant of NextProjects: the page is put in front
NextProjects_Prepend(acc, projects) == projects \o acc

\* all_projects.extend(projects)
NextProjects(acc, projects) == acc \o projects

\* faulty variant of HasNext: any Link header counts
HasNext_AnyLink(link) == link # {}

\* 'rel="next"' in link_header
HasNext(link) == "next" \in link

\* faulty variant of StopAfterFirst: the flag is ignored
StopAfterFirst_Never(flag) == FALSE

\* "if not get_all: break"
StopAfterFirst(flag) == ~flag

\* the resource API answers a page request of get_projects
ProjectsResponse ==
    /\ api_pc = "wait_page"
    /\ \E response \in ApiResponses(Pages) :
        /\ api_log' = Append(api_log, Response(response))
        /\ LET e == HttpException(response)
           IN  IF e # NoException
               THEN /\ ApiFinish(Raise(e))
                    /\ UNCHANGED <<page, all_projects>>
               ELSE IF response.body.list = <<>>
               THEN /\ ApiFinish(Return(all_projects))
                    /\ UNCHANGED <<page, all_projects>>
               ELSE /\ all_projects' = NextProjects(all_projects, response.body.list)
                    /\ IF StopAfterFirst(get_all) \/ ~HasNext(response.link)
                       THEN /\ ApiFinish(Return(all_projects'))
                            /\ UNCHANGED page
                       ELSE /\ page < MaxPages
                            /\ page' = page + 1
                            /\ api_pc' = "sleep"
                            /\ UNCHANGED api_result
    /\ UNCHANGED <<api_token, api_op, get_all>>
    /\ UNCHANGED <<lookups, project_gets>>
    /\ UNCHANGED authVars

\* time.sleep(0.2) at the end of the loop body
ProjectsSleep ==
    /\ api_pc = "sleep"
    /\ api_pc' = "next_page"
    /\ api_log' = api_log \o Pause
    /\ UNCHANGED <<api_token, api_op, get_all, page, all_projects, api_result>>
    /\ UNCHANGED <<lookups, project_gets>>
    /\ UNCHANGED authVars

\* the next iteration of get_projects' loop sends its request
ProjectsNextPage ==
    /\ api_pc = "next_page"
    /\ Send("GET", "projects", page, "wait_page")
    /\ UNCHANGED <<api_token, api_op, get_all, page, all_projects>>
    /\ UNCHANGED <<lookups, project_gets>>
    /\ UNCHANGED authVars

\* the operation is a tool lookup or starts with one
IsLookup(o) == o \in LookupOps \cup PostAfterLookupOps

\* e is the request get_project sends
IsProjectGet(e) == e = Request("GET", "get_project", 0)

\* get_identity, get_project, get_todolists, get_todos, create_todolist,
\* create_todo: one request each
SimpleCall ==
    /\ api_pc = "idle"
    /\ \E o \in GetOps \cup PostOps :
        /\ api_op' = o
        /\ Send(IF o \in GetOps THEN "GET" ELSE "POST", o, 0, "wait_simple")
    /\ UNCHANGED <<api_token, get_all, page, all_projects>>
    /\ UNCHANGED <<lookups, project_gets>>
    /\ UNCHANGED authVars

SimpleResponse ==
    /\ api_pc = "wait_simple"
    /\ \E response \in ApiResponses(IF api_op = "get_project"
                                    THEN Projects ELSE Resources) :
        /\ api_log' = Append(api_log, Response(response))
        /\ LET e == HttpException(response)
           IN  ApiFinish(IF e # NoException THEN Raise(e) ELSE Return(response.body))
    /\ UNCHANGED <<api_token, api_op, get_all, page, all_projects>>
    /\ UNCHANGED <<lookups, project_gets>>
    /\ UNCHANGED authVars

\* the indices of the dock entries of project named name
DockMatches(project, name) ==
    IF "dock" \in DOMAIN project
    THEN { i \in 1..Len(project["dock"]) :
             /\ "name" \in DOMAIN project["dock"][i]
             /\ project["dock"][i]["name"] = name }
    ELSE {}

\* the first dock entry of project named name, for DockMatches non-empty
FirstDock(project, name) ==
    project["dock"][CHOOSE i \in DockMatches(project, name) :
                        \A j \in DockMatches(project, name) : i <= j]

\* dock_item.get('id'), boxed: [id |-> n], or None
DockId(dock_item) ==
    IF "id" \in DOMAIN dock_item THEN [id |-> dock_item["id"]] ELSE None

NotFound(o) ==
    ValueError(CASE o = "get_todoset" -> "No todoset found for this project"
                 [] o = "post_message" -> "No message board found for this project"
                 [] OTHER -> "No campfire found for this project")

\* get_todoset, get_campfire, post_message, post_to_campfire: they begin
\* with get_project
LookupCall ==
    /\ api_pc = "idle"
    /\ lookups < MaxLookups
    /\ \E o \in LookupOps \cup PostAfterLookupOps :
        /\ api_op' = o
        /\ Send("GET", "get_project", 0, "wait_project")
    /\ UNCHANGED <<api_token, get_all, page, all_projects>>
    /\ UNCHANGED <<lookups, project_gets>>
    /\ UNCHANGED authVars

\* the resource API answers get_project; the dock is scanned; post_message
\* and post_to_campfire go on to their POST
ProjectResponse ==
    /\ api_pc = "wait_project"
    /\ \E response \in ApiResponses(Projects) :
        LET e == HttpException(response)
            logged == Append(api_log, Response(response))
            name == DockName(api_op)
        IN  IF e # NoException
            THEN /\ ApiFinish(Raise(e))
                 /\ api_log' = logged
            ELSE IF DockMatches(response.body, name) = {}
            THEN /\ ApiFinish(Raise(NotFound(api_op)))
                 /\ api_log' = logged
            ELSE LET found == DockId(FirstDock(response.body, name))
                 IN  IF api_op \in LookupOps
                     THEN /\ ApiFinish(Return(found))
                          /\ api_log' = logged
                     ELSE IF api_op = "post_message" /\ found = None
                     THEN /\ ApiFinish(Raise(NotFound(api_op)))
                          /\ api_log' = logged
                     ELSE \* self.headers cannot raise here: get_project built them
                          /\ api_pc' = "wait_post"
                          /\ api_log' = logged \o
                                <<Request("POST", <<DockName(api_op), found>>, 0)>>
                          /\ UNCHANGED api_result
    /\ UNCHANGED <<api_token, api_op, get_all, page, all_projects>>
    /\ UNCHANGED <<lookups, project_gets>>
    /\ UNCHANGED authVars

\* the resource API answers the POST of post_message or post_to_campfire
PostResponse ==
    /\ api_pc = "wait_post"
    /\ \E response \in ApiResponses(Resources) :
        /\ api_log' = Append(api_log, Response(response))
        /\ LET e == HttpException(response)
           IN  ApiFinish(IF e # NoException THEN Raise(e) ELSE Return(response.body))
    /\ UNCHANGED <<api_token, api_op, get_all, page, all_projects>>
    /\ UNCHANGED <<lookups, project_gets>>
    /\ UNCHANGED authVars

\* the caller takes the result; the next operation starts from idle
ApiDone ==
    /\ api_pc = "done"
    /\ api_pc' = "idle"
    /\ api_op' = "none"
    /\ get_all' = FALSE
    /\ page' = 0
    /\ all_projects' = <<>>
    /\ api_log' = <<>>
    /\ api_result' = Nothing
    /\ lookups' = IF IsLookup(api_op) THEN lookups + 1 ELSE lookups
    /\ project_gets' = IF IsLookup(api_op)
                       THEN project_gets + Len(SelectSeq(api_log, IsProjectGet))
                       ELSE project_gets
    /\ UNCHANGED api_token
    /\ UNCHANGED authVars

\* no BasecampAPI object yet
ApiInit ==
    /\ api_token = None
    /\ api_pc = "new"
    /\ api_op = "none"
    /\ get_all = FALSE
    /\ page = 0
    /\ all_projects = <<>>
    /\ api_log = <<>>
    /\ api_result = Nothing
    /\ lookups = 0
    /\ project_gets = 0

ApiNext ==
    \/ BasecampAPI
    \/ get_projects
    \/ ProjectsResponse
    \/ ProjectsSleep
    \/ ProjectsNextPage
    \/ SimpleCall
    \/ SimpleResponse
    \/ LookupCall
    \/ ProjectResponse
    \/ PostResponse
    \/ ApiDone

----------------------------------------------------------------------------
(* BasecampCLI: the commands' use of the token store *)

\* faulty variant of NeedsLogin: ensure_auth always logs in
NeedsLogin_Always(token_data_) == TRUE

\* ensure_auth's "if not token_data"
NeedsLogin(token_data_) == Falsy(token_data_)

\* get_valid_token has returned to ensure_auth a value that sends it to login
ReturnedNoToken ==
    /\ op = "get_valid_token"
    /\ result.kind = "return"
    /\ NeedsLogin(result.value)

\* a command that starts with self.ensure_auth(): its call of get_valid_token
ensure_auth ==
    /\ cmd = "none"
    /\ pc = "idle"
    /\ cmd' = "ensure_auth"
    /\ GetValidTokenCall

\* ensure_auth's call of login when get_valid_token gave no token
ensure_auth_login ==
    /\ cmd = "ensure_auth"
    /\ pc = "done"
    /\ ReturnedNoToken
    /\ LoginCall
    /\ UNCHANGED cmd

\* auth login: its call of login
cmd_auth_login ==
    /\ cmd = "none"
    /\ pc = "idle"
    /\ cmd' = "auth_login"
    /\ LoginCall

\* self.api = BasecampAPI(token_data) in ensure_auth and in cmd_auth_login
NewApi ==
    /\ cmd \in {"ensure_auth", "auth_login"}
    /\ pc = "done"
    /\ result.kind = "return"
    /\ ~(cmd = "ensure_auth" /\ ReturnedNoToken)
    /\ pc' = "exit"
    /\ api_token' = result.value
    /\ api_pc' = "idle"
    /\ UNCHANGED <<api_op, get_all, page, all_projects, api_log, api_result,
                   lookups, project_gets>>
    /\ UNCHANGED <<clock, token_file, op, caller, token_data, file0,
                   current_time, token_request, token_requests, store_writes,
                   token_response, response_time, result, prompt_input,
                   file_mode, file_reads, cmd>>

\* an exception of get_valid_token or login leaves the command: main's
\* except clause
CommandFails ==
    /\ cmd \in {"ensure_auth", "auth_login"}
    /\ pc = "done"
    /\ result.kind = "raise"
    /\ pc' = "exit"
    /\ UNCHANGED <<clock, token_file, op, caller, token_data, file0,
                   current_time, token_request, token_requests, store_writes,
                   token_response, response_time, result, prompt_input,
                   file_mode, file_reads, cmd>>
    /\ UNCHANGED apiVars

\* auth status, up to self.api = BasecampAPI(token_data)
cmd_auth_status ==
    /\ cmd = "none"
    /\ pc = "idle"
    /\ cmd' = "auth_status"
    /\ op' = "auth_status"
    /\ pc' = "exit"
    /\ file0' = token_file
    /\ file_reads' = file_reads + 1
    /\ current_time' = clock
    /\ LET loaded == load_token(token_file)
           remaining == (Get(loaded, "obtained_at", 0)
                            + Get(loaded, "expires_in", 7200)) - clock
       IN  IF Falsy(loaded)
           THEN /\ result' = Return(None)
                /\ UNCHANGED <<api_token, api_pc>>
           ELSE IF ~IsDict(loaded)
           THEN /\ result' = Raise(AttributeError)
                /\ UNCHANGED <<api_token, api_pc>>
           ELSE IF remaining <= 0
           THEN /\ result' = Return(None)
                /\ UNCHANGED <<api_token, api_pc>>
           ELSE /\ result' = Return(None)
                /\ api_token' = loaded
                /\ api_pc' = "idle"
    /\ UNCHANGED <<clock, token_file, caller, token_data, token_request,
                   token_requests, store_writes, token_response, response_time,
                   prompt_input, file_mode>>
    /\ UNCHANGED <<api_op, get_all, page, all_projects, api_log, api_result,
                   lookups, project_gets>>

\* the process ends; the next command starts from a new BasecampCLI
Exit ==
    /\ pc = "exit"
    /\ pc' = "idle"
    /\ cmd' = "none"
    /\ op' = "none"
    /\ caller' = "none"
    /\ token_data' = Nothing
    /\ file0' = Nothing
    /\ current_time' = 0
    /\ token_request' = Nothing
    /\ token_requests' = 0
    /\ store_writes' = 0
    /\ token_response' = Nothing
    /\ response_time' = 0
    /\ result' = Nothing
    /\ prompt_input' = <<>>
    /\ file_reads' = 0
    /\ api_token' = None
    /\ api_pc' = "new"
    /\ UNCHANGED <<clock, token_file, file_mode>>
    /\ UNCHANGED <<api_op, get_all, page, all_projects, api_log, api_result,
                   lookups, project_gets>>

----------------------------------------------------------------------------
(* Specifications *)

\* the token lifecycle alone, from any token file an earlier run may have left
AuthInit ==
    /\ clock \in StartClocks
    /\ token_file \in {NoFile} \cup StoredCredentials(clock)
    /\ AuthIdle
    /\ ApiInit

AuthSpec == AuthInit /\ [][AuthNext]_vars

\* what TOKEN_FILE may hold besides a credential: nothing readable, no JSON,
\* or a JSON value that is no credential
OtherFiles ==
    {Unreadable, NotJson, EmptyDict, [list |-> <<>>], [list |-> <<1>>]}

\* the token lifecycle over any content of TOKEN_FILE
LoadInit ==
    /\ clock \in StartClocks
    /\ token_file \in {NoFile} \cup OtherFiles \cup StoredCredentials(clock)
    /\ AuthIdle
    /\ ApiInit

LoadNext ==
    \/ get_valid_token
    \/ RefreshResponse
    \/ chmod
    \/ Tick
    \/ Done

LoadSpec == LoadInit /\ [][LoadNext]_vars

\* one command after another, each in a process of its own
CliInit ==
    /\ clock \in StartClocks
    /\ token_file \in {NoFile} \cup StoredCredentials(clock)
    /\ AuthIdle
    /\ ApiInit

CliNext ==
    \/ ensure_auth
    \/ RefreshResponse
    \/ ensure_auth_login
    \/ cmd_auth_login
    \/ LoginResponse
    \/ chmod
    \/ NewApi
    \/ CommandFails
    \/ cmd_auth_status
    \/ Tick
    \/ Exit

CliSpec == CliInit /\ [][CliNext]_vars

\* the API client alone
ApiSpecInit ==
    /\ clock \in StartClocks
    /\ token_file = NoFile
    /\ AuthIdle
    /\ ApiInit

ApiSpec == ApiSpecInit /\ [][ApiNext]_vars

----------------------------------------------------------------------------
(* Properties of the token lifecycle *)

\* remaining validity of a credential at time now (spec 4.2, step 2)
Remaining(cred, now) ==
    Get(cred, "expires_in", 7200) - (now - Get(cred, "obtained_at", 0))

\* get_valid_token has ended and had found a credential in the store
ValidTokenDoneOn(cred) ==
    /\ pc = "done"
    /\ op = "get_valid_token"
    /\ file0 = cred
    /\ cred # NoFile

\* the token endpoint's answer was taken as a success by the code
ExchangeSucceeded ==
    /\ token_response # Nothing
    /\ token_response # NetworkError
    /\ token_response.status_code < 400
    /\ token_response.body # BadBody

\* C1: a stored credential with remaining validity of at least 300 seconds
\* (exactly 300 included) is returned unchanged by get_valid_token, with no
\* request to the token endpoint and no write of the token store.
C1_FreshReturnedUnchanged ==
    (ValidTokenDoneOn(file0) /\ Remaining(file0, current_time) >= 300)
        => /\ result = Return(file0)
           /\ token_requests = 0
           /\ store_writes = 0
           /\ token_file = file0

C1_Witness ==
    /\ ValidTokenDoneOn(file0)
    /\ Remaining(file0, current_time) = 300
    /\ result = Return(file0)

\* C2: for a stored credential with remaining validity below 300 seconds and a
\* refresh token, get_valid_token sends exactly one refresh request, and when
\* it succeeds the store holds the new credential, stamped with the time of
\* the response, which is the credential returned.
C2_StaleRefreshedOnce ==
    /\ (pc = "refresh_wait" /\ op = "get_valid_token") => token_requests = 1
    /\ (/\ ValidTokenDoneOn(file0)
        /\ Remaining(file0, current_time) < 300
        /\ "refresh_token" \in DOMAIN file0)
        => /\ token_requests = 1
           /\ token_request = RefreshForm(file0)
           /\ token_response # Nothing
           /\ ExchangeSucceeded
                => /\ store_writes = 1
                   /\ token_file["access_token"] = token_response.body["access_token"]
                   /\ token_file["obtained_at"] = response_time
                   /\ response_time = clock
                   /\ result = Return(token_file)

C2_Witness ==
    /\ ValidTokenDoneOn(file0)
    /\ Remaining(file0, current_time) = 299
    /\ ExchangeSucceeded
    /\ response_time > current_time
    /\ token_file["obtained_at"] = response_time
    /\ result = Return(token_file)

\* C3: whenever get_valid_token returns a credential, stored or refreshed, the
\* credential's remaining validity at the moment of return is at least 300
\* seconds.
C3_ReturnedTokenValidNow ==
    (/\ pc = "done"
     /\ op = "get_valid_token"
     /\ result.kind = "return"
     /\ result.value # None)
        => Remaining(result.value, clock) >= 300

\* the refresh attempt of get_valid_token failed, in the sense of the spec:
\* a network error or a status outside 2xx
RefreshAnsweredNon2xx ==
    /\ ValidTokenDoneOn(file0)
    /\ token_requests = 1
    /\ \/ token_response = NetworkError
       \/ token_response.status_code < 200
       \/ token_response.status_code >= 300

\* the refresh attempt failed in the code's sense: no refresh token, a network
\* error, a 4xx or 5xx status, or a body that is no JSON object
RefreshRaised ==
    /\ ValidTokenDoneOn(file0)
    /\ caller = "get_valid_token"
    /\ \/ "refresh_token" \notin DOMAIN file0
       \/ token_response = NetworkError
       \/ token_response.status_code >= 400
       \/ token_response.body = BadBody

RefreshSaved ==
    /\ pc = "done"
    /\ op \in {"get_valid_token", "refresh_token"}
    /\ store_writes = 1

\* C5: after a successful refresh whose response has no refresh_token the
\* credential persisted and returned carries the prior refresh token; when the
\* response has one, the response's value is persisted.
C5_RefreshTokenCarriedForward ==
    RefreshSaved
        => /\ result = Return(token_file)
           /\ "refresh_token" \in DOMAIN token_file
           /\ token_file["refresh_token"] =
                IF "refresh_token" \in DOMAIN token_response.body
                THEN token_response.body["refresh_token"]
                ELSE file0["refresh_token"]

C5_Witness ==
    /\ RefreshSaved
    /\ "refresh_token" \notin DOMAIN token_response.body
    /\ token_file["refresh_token"] = "r0"
    /\ result = Return(token_file)

\* C6: a credential persisted by login or refresh is stamped with the local
\* clock at the response, a server-sent obtained_at is never kept, and the
\* stored obtained_at is never later than the local time.
C6_ObtainedAtIsLocalClock ==
    /\ token_file # NoFile => token_file["obtained_at"] <= clock
    /\ (pc = "done" /\ store_writes = 1)
        => /\ token_file["obtained_at"] = response_time
           /\ response_time = clock
           /\ result = Return(token_file)

C6_Witness ==
    /\ pc = "done"
    /\ op = "login"
    /\ store_writes = 1
    /\ "obtained_at" \in DOMAIN token_response.body
    /\ token_response.body["obtained_at"] # clock
    /\ clock > 300
    /\ token_file["obtained_at"] = clock

----------------------------------------------------------------------------
(* Properties of the API client *)

IsRequest(e) == e.ev = "request"
IsResponse(e) == e.ev = "response"

\* the requests sent so far by the running operation, in order
Requests == SelectSeq(api_log, IsRequest)

\* the answers received so far by the running operation, in order
Answers == SelectSeq(api_log, IsResponse)

\* an answer the code takes as a page: no exception from the request,
\* raise_for_status or json()
IsPage(r) ==
    /\ r # NetworkError
    /\ r.status_code < 400
    /\ r.body # BadBody

\* a page after which get_projects(get_all=True) asks for the next one
Continues(r) ==
    /\ IsPage(r)
    /\ r.body.list # <<>>
    /\ "next" \in r.link

\* the records of the answers in as, concatenated in order
RECURSIVE RecordsOf(_)
RecordsOf(as) ==
    IF as = <<>> THEN <<>>
    ELSE as[1].response.body.list \o RecordsOf(Tail(as))

PagingAll == api_op = "get_projects" /\ get_all /\ ~Falsy(api_token)
PagingFirst == api_op = "get_projects" /\ ~get_all /\ ~Falsy(api_token)

\* C7: get_projects(get_all=True) requests page 1, 2, 3, ... in order, goes
\* on while the last answer is a non-empty page whose Link header has
\* rel="next", stops at the first answer that is empty or lacks it, and
\* returns the records of all pages fetched, in request order.
C7_PagesFetchedInOrder ==
    PagingAll
        => /\ \A i \in 1..Len(Requests) :
                /\ Requests[i].method = "GET"
                /\ Requests[i].resource = "projects"
                /\ Requests[i].page = i
           /\ Len(Answers) \in {Len(Requests) - 1, Len(Requests)}
           /\ \A i \in 1..Len(Answers) :
                IF Continues(Answers[i].response)
                THEN i < Len(Requests) \/ api_pc \in {"sleep", "next_page"}
                ELSE i = Len(Requests) /\ api_pc = "done"
           /\ (api_pc = "done" /\ IsPage(Answers[Len(Answers)].response))
                => api_result = Return(RecordsOf(Answers))

\* page 1 = [1, 2] with rel="next", then an empty page 2: [1, 2], two requests
C7_Witness ==
    /\ PagingAll
    /\ api_pc = "done"
    /\ Len(Requests) = 2
    /\ Len(Answers) = 2
    /\ IsPage(Answers[1].response)
    /\ IsPage(Answers[2].response)
    /\ Answers[1].response.body = JsonList(<<1, 2>>)
    /\ "next" \in Answers[1].response.link
    /\ Answers[2].response.body = JsonList(<<>>)
    /\ api_result = Return(<<1, 2>>)

\* C8: get_projects(get_all=False) sends exactly one request, for page 1, and
\* returns that page's records whatever the Link header says.
C8_FirstPageOnly ==
    PagingFirst
        => /\ Len(Requests) = 1
           /\ Requests[1].page = 1
           /\ Len(Answers) <= 1
           /\ Len(Answers) = 1 => api_pc = "done"
           /\ (Len(Answers) = 1 /\ IsPage(Answers[1].response))
                => api_result = Return(Answers[1].response.body.list)

C8_Witness ==
    /\ PagingFirst
    /\ api_pc = "done"
    /\ Len(Requests) = 1
    /\ IsPage(Answers[1].response)
    /\ Answers[1].response.body = JsonList(<<1, 2>>)
    /\ "next" \in Answers[1].response.link
    /\ api_result = Return(<<1, 2>>)

\* the i-th event of the log is an answer with a status in bad
AnsweredWith(i, bad) ==
    /\ IsResponse(api_log[i])
    /\ api_log[i].response # NetworkError
    /\ api_log[i].response.status_code \in bad

\* the operation failed at event i with the HTTP error of that answer, and
\* sent nothing after it
FailedAt(i) ==
    /\ i = Len(api_log)
    /\ api_pc = "done"
    /\ api_result = Raise(HTTPError(api_log[i].response.status_code))

C10_NoTokenFailsAtHeaders ==
    (api_pc # "new" /\ Falsy(api_token))
        => /\ api_log = <<>>
           /\ api_pc \in {"idle", "done"}
           /\ api_pc = "done"
                => api_result = Raise(ValueError("No authentication token available"))

C10_Witness ==
    /\ api_token = None
    /\ api_pc = "done"
    /\ api_op = "post_to_campfire"
    /\ api_log = <<>>
    /\ api_result = Raise(ValueError("No authentication token available"))

----------------------------------------------------------------------------
(* Properties of the tool lookups *)

\* a lookup operation has ended on a decoded project
LookupDoneOn(project) ==
    /\ api_pc = "done"
    /\ api_op \in LookupOps
    /\ Len(Answers) = 1
    /\ IsPage(Answers[1].response)
    /\ Answers[1].response.body = project

\* C11: a tool lookup returns the id of the dock entry named after the tool
\* when the dock has one, fails with the not-found error when it has none or
\* the project has no dock, and never returns an absent id as its result.
C11_LookupReturnsIdOrNotFound ==
    \A project \in Projects :
        LookupDoneOn(project)
            => IF DockMatches(project, DockName(api_op)) = {}
               THEN api_result = Raise(NotFound(api_op))
               ELSE /\ api_result.kind = "return"
                    /\ api_result.value # None
                    /\ \E i \in DockMatches(project, DockName(api_op)) :
                            api_result.value = DockId(project["dock"][i])

----------------------------------------------------------------------------
(* Properties of login's prompt *)

CodeKey == <<"c", "o", "d", "e", "=">>
QuestionMark == <<"?">>

\* the value of the query parameter whose name-and-equals prefix is key
RECURSIVE ParamValue(_, _)
ParamValue(query, key) ==
    LET param == SplitFirst(query, Amp)
    IN  IF OccursAt(param, key, 1)
        THEN SubSeq(param, Len(key) + 1, Len(param))
        ELSE IF Contains(query, Amp)
        THEN ParamValue(SubSeq(query, Find(query, Amp) + 1, Len(query)), key)
        ELSE <<>>

\* the code a pasted text stands for: the code parameter of a redirect URL's
\* query string, or the text itself when it is a bare code
PastedCode(pasted) ==
    IF Contains(pasted, QuestionMark)
    THEN ParamValue(SubSeq(pasted, Find(pasted, QuestionMark) + 1, Len(pasted)),
                    CodeKey)
    ELSE pasted

\* C12: whatever was pasted at login's prompt, the code sent to the token
\* endpoint is the bare code as pasted, or the value of the redirect URL's code
\* query parameter up to the next "&", wherever that parameter stands in the
\* query string.
C12_CodeIsCodeParameter ==
    (op = "login" /\ pc = "login_wait")
        => token_request["code"] = PastedCode(Strip(prompt_input))


\* login has ended on a pasted text that supplies no code
LoginDoneWithoutCode ==
    /\ op = "login"
    /\ pc = "done"
    /\ PastedCode(Strip(prompt_input)) = <<>>

----------------------------------------------------------------------------
(* Properties of failed exchanges with the token endpoint *)

\* login, or refresh_token called by itself, has ended after an answer of
\* the token endpoint
ExchangeDone ==
    /\ op \in {"login", "refresh_token"}
    /\ pc = "done"
    /\ token_response # Nothing

IsHttp(response) == response # NetworkError

\* the exception a caller sees for a failed exchange: the HTTP error with
\* the answer's status, or the connection error
PropagatedError(response) ==
    IF IsHttp(response)
    THEN Raise(HTTPError(response.status_code))
    ELSE Raise(ConnectionError)

NotRetriedAndStoreKept ==
    /\ token_requests = 1
    /\ result = PropagatedError(token_response)
    /\ store_writes = 0
    /\ token_file = file0

----------------------------------------------------------------------------
(* Properties of a credential without refresh token *)

HasNoRefreshToken(credential) ==
    /\ credential \notin {NoFile, Nothing}
    /\ "refresh_token" \notin DOMAIN credential

Stale(credential, now) ==
    (now - Get(credential, "obtained_at", 0))
        > (Get(credential, "expires_in", 7200) - 300)

\* C15: refresh_token on a credential without refresh token fails with its
\* "no refresh token" error without any request to the token endpoint and
\* without writing the token file; get_valid_token on a stale stored credential
\* without refresh token returns None, never the stale credential.
C15_NoRefreshTokenNoRequest ==
    /\ (op = "refresh_token" /\ pc = "done" /\ HasNoRefreshToken(file0))
        => /\ result = Raise(ValueError("No refresh token available"))
           /\ token_requests = 0
           /\ token_request = Nothing
           /\ store_writes = 0
           /\ token_file = file0
    /\ (/\ op = "get_valid_token"
        /\ pc = "done"
        /\ HasNoRefreshToken(file0)
        /\ Stale(file0, current_time))
        => /\ result = Return(None)
           /\ token_requests = 0
           /\ token_request = Nothing
           /\ store_writes = 0
           /\ token_file = file0
    /\ (op \in {"refresh_token", "get_valid_token"} /\ HasNoRefreshToken(file0))
        => pc # "refresh_wait"

C15_Witness ==
    /\ op = "get_valid_token"
    /\ pc = "done"
    /\ HasNoRefreshToken(file0)
    /\ Stale(file0, current_time)
    /\ caller = "get_valid_token"
    /\ result = Return(None)
    /\ token_requests = 0


----------------------------------------------------------------------------
(* Properties of load_token *)

\* the file holds a credential record
HoldsCredential(file) ==
    /\ file \notin {NoFile, Unreadable, NotJson}
    /\ IsDict(file)
    /\ "access_token" \in DOMAIN file

\* C16: load_token never fails; when the token file does not exist, cannot be
\* read or does not hold a well-formed credential record it returns what its
\* callers take for "no credential" (None or an empty value), and
\* get_valid_token then returns None without raising and without any request
\* to the token endpoint.
C16_NoCredentialNeverFatal ==
    (op = "get_valid_token" /\ pc = "done" /\ ~HoldsCredential(file0))
        => /\ Falsy(load_token(file0))
           /\ result = Return(None)
           /\ token_requests = 0
           /\ token_file = file0


----------------------------------------------------------------------------
(* Properties of the token file's permissions *)

HoldsContent == token_file # NoFile

\* C17: in every state in which the token file holds content, the states
\* inside save_token and the first save that creates the file included, nobody
\* but the owner has read or write permission on it.
C17_FileAlwaysOwnerOnly ==
    HoldsContent => file_mode \subseteq OwnerOnly


----------------------------------------------------------------------------
(* Properties of the commands' use of the token file *)

InCommand == cmd # "none"

\* the exchange the running command last made with the token endpoint was
\* taken for a success
LastExchangeSucceeded ==
    /\ token_response # Nothing
    /\ HttpException(token_response) = NoException

\* ensure_auth went on to login after a refresh that failed
FellBackAfterFailedRefresh ==
    /\ cmd = "ensure_auth"
    /\ op = "login"
    /\ caller = "get_valid_token"
    /\ token_requests = 2

\* C18: within one command the token file is read at most once and written at
\* most once, and only after a login or refresh that succeeded; when a refresh
\* fails and the command falls back to login the file is written once, by
\* login, and auth status never writes it.
C18_ReadOnceWrittenOnce ==
    InCommand
        => /\ file_reads <= 1
           /\ store_writes <= 1
           /\ store_writes = 1
                => /\ LastExchangeSucceeded
                   /\ op \in {"login", "get_valid_token"}
                   /\ pc \in {"chmod", "done", "exit"}
           /\ store_writes = 0 => token_file = file0
           /\ (FellBackAfterFailedRefresh /\ pc = "exit" /\ result.kind = "return")
                => /\ store_writes = 1
                   /\ token_file = result.value
           /\ cmd = "auth_login" => file_reads = 0
           /\ cmd = "auth_status" => store_writes = 0 /\ token_requests = 0

C18_Witness ==
    /\ FellBackAfterFailedRefresh
    /\ pc = "exit"
    /\ result.kind = "return"
    /\ file_reads = 1
    /\ store_writes = 1
    /\ token_file # file0


----------------------------------------------------------------------------
(* Properties of the pause between pages *)

IsSleep(e) == e.ev = "sleep"

\* the pauses taken so far by the running operation
Pauses == SelectSeq(api_log, IsSleep)

\* C19: get_projects with get_all sends its requests one at a time, and
\* exactly one pause of 200 ms lies between every two consecutive page
\* requests: each request but the first directly follows one pause that
\* directly follows the previous response, no pause precedes the first request
\* and none follows the last response.
C19_OnePauseBetweenPages ==
    PagingAll
        => /\ \A k \in 1..Len(api_log) :
                /\ IsRequest(api_log[k])
                    => /\ k < Len(api_log) => IsResponse(api_log[k + 1])
                       /\ k = 1 \/ (k >= 3 /\ IsSleep(api_log[k - 1])
                                          /\ IsResponse(api_log[k - 2]))
                /\ IsSleep(api_log[k])
                    => /\ api_log[k].ms = PauseMs
                       /\ k >= 3
                       /\ IsResponse(api_log[k - 1])
                       /\ Continues(api_log[k - 1].response)
                       /\ k < Len(api_log) => IsRequest(api_log[k + 1])
                /\ IsResponse(api_log[k])
                    => k >= 2 /\ IsRequest(api_log[k - 1])
           /\ api_pc = "next_page" => IsSleep(api_log[Len(api_log)])
           /\ api_pc = "wait_page" => IsRequest(api_log[Len(api_log)])
           /\ api_pc = "done"
                => /\ Len(Pauses) = Len(Requests) - 1
                   /\ IsResponse(api_log[Len(api_log)])

C19_Witness ==
    /\ PagingAll
    /\ api_pc = "done"
    /\ Len(Requests) = 3
    /\ Len(Pauses) = 2
    /\ IsSleep(api_log[3])
    /\ IsSleep(api_log[6])


----------------------------------------------------------------------------
(* Properties of repeated tool lookups *)

\* the project GETs of the running call
ProjectGets == SelectSeq(api_log, IsProjectGet)

\* a tool lookup of a client with a token is running or has just ended
LookupRunning ==
    /\ IsLookup(api_op)
    /\ ~Falsy(api_token)
    /\ api_pc # "idle"

\* C20: every tool lookup fetches the project anew: the lookups a client has
\* completed have sent as many project GETs as there were lookups, the running
\* lookup has sent its own project GET before anything else, and its result
\* is read from the dock its own GET returned.
C20_EachLookupFetchesProject ==
    /\ ~Falsy(api_token) => project_gets = lookups
    /\ LookupRunning
        => /\ Len(ProjectGets) = 1
           /\ IsProjectGet(api_log[1])
    /\ (LookupRunning /\ api_pc = "done" /\ api_op \in LookupOps
            /\ api_result.kind = "return")
        => /\ IsPage(Answers[1].response)
           /\ api_result.value
                = DockId(FirstDock(Answers[1].response.body, DockName(api_op)))

C20_Witness ==
    /\ LookupRunning
    /\ api_op = "get_todoset"
    /\ api_pc = "done"
    /\ lookups = 1
    /\ project_gets = 1
    /\ Len(ProjectGets) = 1
    /\ api_result = Return([id |-> TodoSet.id])


----------------------------------------------------------------------------
(* Properties of ensure_auth *)

\* ensure_auth has returned to its command
EnsureAuthReturned ==
    /\ cmd = "ensure_auth"
    /\ pc = "exit"
    /\ result.kind = "return"

\* ensure_auth has called login
EnsureAuthLoggedIn ==
    /\ cmd = "ensure_auth"
    /\ op = "login"

\* what login found stored is what get_valid_token answers None for: no
\* file, or a stale credential that has no refresh token or whose refresh
\* failed and so is still the stored one
NoCredentialSignalled ==
    \/ file0 = NoFile
    \/ /\ Stale(file0, current_time)
       /\ caller = "get_valid_token"
       /\ token_data = file0
       /\ HasNoRefreshToken(file0) \/ token_requests >= 1

\* C21: ensure_auth runs login exactly when get_valid_token gave no
\* credential (nothing stored, stale without refresh token, stale with failed
\* refresh); and whenever it returns, the API client has been constructed with
\* the credential get_valid_token or login just returned, which is not absent.
C21_EnsureAuthLifecycle ==
    /\ EnsureAuthLoggedIn => file_reads = 1 /\ NoCredentialSignalled
    /\ (cmd = "ensure_auth" /\ op = "get_valid_token" /\ pc = "exit"
            /\ result.kind = "return")
        => ~Falsy(result.value)
    /\ EnsureAuthReturned
        => /\ api_pc = "idle"
           /\ api_token = result.value
           /\ ~Falsy(api_token)
           /\ IsDict(api_token)
           /\ "access_token" \in DOMAIN api_token
           /\ api_token = token_file \/ (op = "get_valid_token" /\ api_token = file0)
    /\ (cmd = "ensure_auth" /\ pc = "exit" /\ result.kind = "raise")
        => api_pc = "new"

C21_Witness ==
    /\ EnsureAuthReturned
    /\ EnsureAuthLoggedIn
    /\ HasNoRefreshToken(file0)
    /\ Stale(file0, current_time)
    /\ token_requests = 1
    /\ api_token = token_file
    /\ api_token # file0


----------------------------------------------------------------------------
(* Properties of the end of paging *)

\* an answer after which the claim has the call stop: outside 2xx, an empty
\* page, or a page without rel="next"
StopsAsStated(r) ==
    \/ r = NetworkError
    \/ r.status_code \notin 200..299
    \/ r.body = BadBody
    \/ r.body.list = <<>>
    \/ "next" \notin r.link

\* the call has ended with the k-th event of the log
EndedAt(k) ==
    /\ k = Len(api_log)
    /\ api_pc = "done"

\* the call goes on after the k-th event of the log: it pauses and sends the
\* request for the next page
GoesOnAfter(k) ==
    /\ k = Len(api_log) => api_pc = "sleep" /\ page = Len(Requests) + 1
    /\ k + 1 <= Len(api_log) => IsSleep(api_log[k + 1])
    /\ k + 2 <= Len(api_log)
        => /\ IsRequest(api_log[k + 2])
           /\ api_log[k + 2].page = Len(SelectSeq(SubSeq(api_log, 1, k), IsRequest)) + 1

----------------------------------------------------------------------------
(* Properties of posting after a lookup *)

IsPost(e) == IsRequest(e) /\ e.method = "POST"

\* the POSTs of the running call
Posts == SelectSeq(api_log, IsPost)

\* post_message or post_to_campfire is running or has just ended
PostRunning ==
    /\ api_op \in PostAfterLookupOps
    /\ ~Falsy(api_token)
    /\ api_pc # "idle"

\* the project was fetched and its dock has an entry named after the tool
FetchedWithEntry ==
    /\ Len(Answers) >= 1
    /\ IsPage(Answers[1].response)
    /\ DockMatches(Answers[1].response.body, DockName(api_op)) # {}

\* no POST without a fetched project that has the entry; one project GET
\* before at most one POST
PostOnlyAfterFetch ==
    PostRunning
        => /\ Len(ProjectGets) = 1
           /\ IsProjectGet(api_log[1])
           /\ Len(Posts) <= 1
           /\ (Len(Answers) >= 1 /\ ~FetchedWithEntry)
                => /\ Posts = <<>>
                   /\ api_pc = "done"
                   /\ api_result.kind = "raise"
                   /\ Len(api_log) = 2
           /\ Posts # <<>>
                => /\ FetchedWithEntry
                   /\ IsPost(api_log[3])

\* the POST goes to the identifier the lookup found
PostTargetsFoundId ==
    (PostRunning /\ Posts # <<>>)
        => /\ Posts[1].resource[1] = DockName(api_op)
           /\ Posts[1].resource[2] # None
           /\ \E i \in DockMatches(Answers[1].response.body, DockName(api_op)) :
                Posts[1].resource[2]
                    = DockId(Answers[1].response.body["dock"][i])

====
